---- MODULE Spec2Model ----
(***************************************************************************)
(* FLife.SpectralData: the PSD container, the band splitter, the moment    *)
(* engine, the derived-statistic calculators and the coefficient cache.    *)
(*                                                                         *)
(* Numbers.  Frequencies and magnitudes are small naturals, so every       *)
(* float operation of the code is exact on them and is modelled by integer *)
(* arithmetic.  A spectral moment m_i = trapz((2*pi*f)^i * p, f) is held   *)
(* as the integer  2 * m_i / (2*pi)^i  ("doubled moment"), the sum over    *)
(* adjacent rows of (f[j+1]-f[j]) * (f[j]^i*p[j] + f[j+1]^i*p[j+1]).       *)
(* Quotients under a square root are held as the pair of their operands.   *)
(* Row indices are 0-based as in the code; row j is psd[j+1] here.         *)
(* Orders and estimator indices are integers (a fractional power is not    *)
(* an integer operation), so the cached alpha075 is not held.              *)
(* band_rows records, for the last get_spectral_moments call, the row      *)
(* indices of each slice handed to _get_spectral_moment.                   *)
(***************************************************************************)
EXTENDS Integers, Sequences, FiniteSets, TLC

VARIABLES psd, PSD_splitting, moments, nu, m_p, alpha1, alpha2,
          pc, call, result, band_rows

vars == <<psd, PSD_splitting, moments, nu, m_p, alpha1, alpha2,
          pc, call, result, band_rows>>

(* ------------------------------ bounds -------------------------------- *)
\* rows of a PSD
MaxRows == 3
\* largest sample frequency
MaxFreq == 2
\* largest magnitude
MaxMag == 2
\* largest band count N asked of equalAreaBands
MaxBands == 2
\* largest moment order / estimator index a caller asks for
MaxOrder == 1

(* --------------------------- Python values ---------------------------- *)
PyInt(n) == [kind |-> "int", val |-> n]
PyFloat(n) == [kind |-> "float", val |-> n]
PyStr(s) == [kind |-> "str", str |-> s]
PyNone == [kind |-> "NoneType"]
PyList(s) == [kind |-> "list", items |-> s]
PyTuple(s) == [kind |-> "tuple", items |-> s]

\* isinstance(v, (int, float))
IsNumber(v) == v.kind \in {"int", "float"}

\* a normal return, and a raised exception
Return(v) == [ok |-> TRUE, val |-> v]
Raise(type, message) == [ok |-> FALSE, exc |-> type, msg |-> message]

(* ------------------------------- numpy -------------------------------- *)
\* a local variable of the code is written Only({e(x) : x \in {v}}): v is
\* computed once and e reads the value
Only(S) == CHOOSE out \in S : TRUE

Abs(a) == IF a < 0 THEN -a ELSE a

\* base ** e as numpy computes it for e >= 0 (0.0 ** 0 is 1.0)
Pow[base \in Int, e \in Nat] == IF e = 0 THEN 1 ELSE base * Pow[base, e - 1]

np_sum[v \in Seq(Int)] == IF v = <<>> THEN 0 ELSE v[1] + np_sum[Tail(v)]

np_cumsum(v) == [j \in 1..Len(v) |-> np_sum[SubSeq(v, 1, j)]]

\* ndarray.argmin(): scan upward, keep the first smallest; 0-based
argminFrom[d \in Seq(Int), j \in Nat, best \in Nat] ==
    IF j > Len(d) THEN best - 1
    ELSE argminFrom[d, j + 1, IF d[j] < d[best] THEN j ELSE best]

\* a scan that keeps the last smallest instead of the first
argminLastFrom[d \in Seq(Int), j \in Nat, best \in Nat] ==
    IF j > Len(d) THEN best - 1
    ELSE argminLastFrom[d, j + 1, IF d[j] <= d[best] THEN j ELSE best]

argmin_last(d) == argminLastFrom[d, 2, 1]

argmin(d) == argminFrom[d, 2, 1]

\* 2 * np.trapz(y, x); an array of fewer than two samples integrates to 0
trapz2[y \in Seq(Int), x \in Seq(Int)] ==
    IF Len(x) < 2 THEN 0
    ELSE (x[2] - x[1]) * (y[1] + y[2]) + trapz2[Tail(y), Tail(x)]

\* a left-rectangle rule: the last sample of the slice is never read
rect2[y \in Seq(Int), x \in Seq(Int)] ==
    IF Len(x) < 2 THEN 0
    ELSE (x[2] - x[1]) * (y[1] + y[1]) + rect2[Tail(y), Tail(x)]

np_trapz2_left(y, x) == rect2[y, x]

np_trapz2(y, x) == trapz2[y, x]

\* the 0-based row indices a[lo:hi] selects, for 0 <= lo and 0 <= hi
PySlice(a, lo, hi) ==
    LET top == IF hi < Len(a) THEN hi ELSE Len(a)
    IN  [j \in 1..(IF top > lo THEN top - lo ELSE 0) |-> lo + j - 1]

Rows(a, idx) == [j \in 1..Len(idx) |-> a[idx[j] + 1]]

(* --------------------------- band splitter ----------------------------- *)
\* |c_psd - (n+1)*q_area/N| for every row, times N (N > 0 inside the loop)
EqualAreaDistance(c_psd, q_area, N, n) ==
    [j \in 1..Len(c_psd) |-> Abs(N * c_psd[j] - (n + 1) * q_area)]

_equalAreaBands(N) ==
    IF N.kind # "int"
    THEN Raise("TypeError", "Parameter PSD_splitting[1] must be of type int.")
    ELSE LET psd_val == [j \in 1..Len(psd) |-> psd[j].p]
             q_area == np_sum[psd_val]
             c_psd == np_cumsum(psd_val)
             \* range(N) is empty for N <= 0
             count == IF N.val > 0 THEN N.val ELSE 0
         IN  Return([k \in 1..count |->
                        argmin(EqualAreaDistance(c_psd, q_area, N.val, k - 1))])

\* every target is looked up, but the indices come back in ascending order
_userDefinedBands_sorted(freq_list) ==
    IF freq_list.kind \notin {"list", "tuple"}
    THEN Raise("TypeError", "Parameter PSD_splitting[1] must be of type list or tuple.")
    ELSE IF \E k \in 1..Len(freq_list.items) : ~IsNumber(freq_list.items[k])
    THEN Raise("TypeError", "Parameter PSD_splitting[1] elements must be of type int or float.")
    ELSE LET psd_freq == [j \in 1..Len(psd) |-> psd[j].f]
             found == [n \in 1..Len(freq_list.items) |->
                          argmin([j \in 1..Len(psd_freq) |->
                                     Abs(psd_freq[j] - freq_list.items[n].val)])]
         IN  Return(IF Len(found) = 2 /\ found[1] > found[2]
                    THEN <<found[2], found[1]>> ELSE found)

_userDefinedBands(freq_list) ==
    IF freq_list.kind \notin {"list", "tuple"}
    THEN Raise("TypeError", "Parameter PSD_splitting[1] must be of type list or tuple.")
    ELSE IF \E k \in 1..Len(freq_list.items) : ~IsNumber(freq_list.items[k])
    THEN Raise("TypeError", "Parameter PSD_splitting[1] elements must be of type int or float.")
    ELSE LET psd_freq == [j \in 1..Len(psd) |-> psd[j].f]
         IN  Return([n \in 1..Len(freq_list.items) |->
                        argmin([j \in 1..Len(psd_freq) |->
                                   Abs(psd_freq[j] - freq_list.items[n].val)])])

\* the f-string of the raise statement formats method with the str format code
UnknownMethodError(method) ==
    IF method.kind = "str"
    THEN Raise("ValueError", "Unknown splitting method")
    ELSE IF IsNumber(method)
    THEN Raise("ValueError", "Unknown format code 's'")
    ELSE Raise("TypeError", "unsupported format string passed to __format__")

_get_band_stop_frequency(splitting) ==
    IF splitting.kind # "tuple"
    THEN Raise("TypeError", "Parameter PSD_splitting must be of type tuple.")
    ELSE LET method == splitting.items[1]
             arg == splitting.items[2]
         IN  Only({IF freq_indx.ok THEN freq_indx ELSE UnknownMethodError(method) :
                   freq_indx \in
                       {IF method.kind = "str" /\ method.str = "equalAreaBands"
                        THEN _equalAreaBands(arg)
                        ELSE IF method.kind = "str" /\ method.str = "userDefinedBands"
                        THEN _userDefinedBands(arg)
                        ELSE Raise("KeyError", "method_dict[method]")}})

(* ---------------------------- moment engine ---------------------------- *)
_get_spectral_moment(band, i) ==
    IF ~IsNumber(i)
    THEN Raise("TypeError", "Parameter i must be of type int or float")
    ELSE LET f == [j \in 1..Len(band) |-> band[j].f]
             y == [j \in 1..Len(band) |-> Pow[band[j].f, i.val] * band[j].p]
         IN  Return(np_trapz2(y, f))

\* a slice that starts one row after the previous boundary
BandSlice_halfopen(band_stop_indexes, index) ==
    IF index = 1
    THEN PySlice(psd, 0, band_stop_indexes[index] + 1)
    ELSE PySlice(psd, band_stop_indexes[index - 1] + 1, band_stop_indexes[index] + 1)

\* a slice that always starts at row 0, so each band repeats the bands before it
BandSlice_cumulative(band_stop_indexes, index) ==
    PySlice(psd, 0, band_stop_indexes[index] + 1)

\* the rows of band index (1-based here): psd[:b+1] or psd[b_prev:b+1]
BandSlice(band_stop_indexes, index) ==
    IF index = 1
    THEN PySlice(psd, 0, band_stop_indexes[index] + 1)
    ELSE PySlice(psd, band_stop_indexes[index - 1], band_stop_indexes[index] + 1)

\* the loop over the bands; the first band's comprehension raises at a
\* non-numeric order, and no band means no order is looked at
MomentLoop(band_stop_indexes, orders) ==
    IF band_stop_indexes # <<>> /\ \E k \in 1..Len(orders) : ~IsNumber(orders[k])
    THEN Raise("TypeError", "Parameter i must be of type int or float")
    ELSE Return([index \in 1..Len(band_stop_indexes) |->
                    [k \in 1..Len(orders) |->
                        _get_spectral_moment(
                            Rows(psd, BandSlice(band_stop_indexes, index)),
                            orders[k]).val]])

get_spectral_moments(splitting, orders) ==
    Only({IF ~stops.ok THEN stops ELSE MomentLoop(stops.val, orders) :
          stops \in {_get_band_stop_frequency(splitting)}})

\* the slices handed to _get_spectral_moment by one get_spectral_moments call,
\* in call order
SlicedRows(splitting, orders) ==
    Only({IF ~stops.ok THEN <<>>
          ELSE IF stops.val # <<>> /\ \E k \in 1..Len(orders) : ~IsNumber(orders[k])
          THEN <<BandSlice(stops.val, 1)>>
          ELSE [index \in 1..Len(stops.val) |-> BandSlice(stops.val, index)] :
          stops \in {_get_band_stop_frequency(splitting)}})

(* ---------------------- derived-statistic calculators ------------------ *)
\* the order i itself where 2*i is meant
Twice_same(i) == i

\* 2*i keeps the Python type of i
Twice(i) == [i EXCEPT !.val = 2 * i.val]

\* alpha_i = m_i / sqrt(m0 * m_2i), held per band as (num, rad): num / sqrt(rad);
\* the factors (2*pi)^i / 2 of the three doubled moments cancel
get_bandwidth_estimator(splitting, i) ==
    IF ~IsNumber(i)
    THEN Raise("TypeError", "Parameter i must be of type int or float")
    ELSE Only({IF ~m.ok THEN m
               ELSE Return([b \in 1..Len(m.val) |->
                               [num |-> m.val[b][2],
                                rad |-> m.val[b][1] * m.val[b][3]]]) :
               m \in {get_spectral_moments(splitting, <<PyInt(0), i, Twice(i)>>)}})

\* epsV = sqrt(1 - alpha_1^2), held per band as the alpha_1 it is taken from
get_vanmarcke_parameter(splitting) ==
    Only({IF ~alpha.ok THEN alpha
          ELSE Return([b \in 1..Len(alpha.val) |->
                          [one_minus_square_of |-> alpha.val[b]]]) :
          alpha \in {get_bandwidth_estimator(splitting, PyInt(1))}})

\* nu_p = 1/(2*pi) * sqrt(m2/m0), held per band as (num, den): sqrt(num / den)
get_nup(splitting) ==
    Only({IF ~m.ok THEN m
          ELSE Return([b \in 1..Len(m.val) |->
                          [num |-> m.val[b][2], den |-> m.val[b][1]]]) :
          m \in {get_spectral_moments(splitting, <<PyInt(0), PyInt(2)>>)}})

\* m_p = 1/(2*pi) * sqrt(m4/m2), held per band as (num, den): sqrt(num / den)
get_mp(splitting) ==
    Only({IF ~m.ok THEN m
          ELSE Return([b \in 1..Len(m.val) |->
                          [num |-> m.val[b][2], den |-> m.val[b][1]]]) :
          m \in {get_spectral_moments(splitting, <<PyInt(2), PyInt(4)>>)}})

(* ------------------------------- inputs -------------------------------- *)
\* PSD curves: 1..MaxRows rows, strictly increasing frequencies, magnitudes >= 0
PSDs ==
    UNION {{[j \in 1..n |-> [f |-> fs[j], p |-> ps[j]]] :
               fs \in {g \in [1..n -> 0..MaxFreq] : \A j \in 1..(n - 1) : g[j] < g[j + 1]},
               ps \in [1..n -> 0..MaxMag]} : n \in 1..MaxRows}

ListsUpToTwo(S) == {<<>>} \cup {<<a>> : a \in S} \cup {<<a, b>> : a \in S, b \in S}

NValues == {PyInt(n) : n \in (-1)..MaxBands} \cup {PyFloat(1), PyNone}

FreqValues == {PyInt(f) : f \in 0..MaxFreq} \cup {PyStr("a")}

equalArea(N) == PyTuple(<<PyStr("equalAreaBands"), N>>)
userDefined(l) == PyTuple(<<PyStr("userDefinedBands"), l>>)

Splittings ==
    {equalArea(N) : N \in NValues}
    \cup {userDefined(PyList(l)) : l \in ListsUpToTwo(FreqValues)}
    \cup {userDefined(PyInt(1))}
    \cup {PyTuple(<<m, PyInt(1)>>) : m \in {PyStr("equalBands"), PyNone, PyInt(0)}}
    \cup {PyStr("equalAreaBands")}

OrderValues == {PyInt(i) : i \in 0..MaxOrder} \cup {PyStr("a")}

DefaultMoments == <<PyInt(0), PyInt(1), PyInt(2), PyInt(3), PyInt(4)>>

OrderLists == ListsUpToTwo(OrderValues) \cup {DefaultMoments}

(* --------------------------- the state machine ------------------------- *)
NoCall == [op |-> "none"]

\* SpectralData.__init__ with input (psd, f), then _calculate_coefficients;
\* alpha075 (a fractional order) is outside integer arithmetic and not held
Init ==
    /\ psd \in PSDs
    /\ PSD_splitting = equalArea(PyInt(1))
    /\ moments = get_spectral_moments(PSD_splitting, DefaultMoments).val[1]
    /\ nu = get_nup(PSD_splitting).val[1]
    /\ m_p = get_mp(PSD_splitting).val[1]
    /\ alpha1 = get_bandwidth_estimator(PSD_splitting, PyInt(1)).val[1]
    /\ alpha2 = get_bandwidth_estimator(PSD_splitting, PyInt(2)).val[1]
    /\ pc = "idle"
    /\ call = NoCall
    /\ result = Return(<<>>)
    /\ band_rows = <<>>

\* what a call returns or raises in the current state
Outcome(c) ==
    CASE c.op = "_get_band_stop_frequency" -> _get_band_stop_frequency(c.splitting)
      [] c.op = "get_spectral_moments" -> get_spectral_moments(c.splitting, c.arg)
      [] c.op = "get_bandwidth_estimator" -> get_bandwidth_estimator(c.splitting, c.arg)
      [] c.op = "get_vanmarcke_parameter" -> get_vanmarcke_parameter(c.splitting)
      [] c.op = "get_nup" -> get_nup(c.splitting)
      [] c.op = "get_mp" -> get_mp(c.splitting)

\* a query that also keeps the policy it was given as the object's own
Query_storing(c, rows) ==
    /\ pc' = "returned"
    /\ call' = c
    /\ result' = Outcome(c)
    /\ band_rows' = rows
    /\ PSD_splitting' = c.splitting
    /\ UNCHANGED <<psd, moments, nu, m_p, alpha1, alpha2>>

\* a query reads the object and hands its outcome to the caller
Query(c, rows) ==
    /\ pc' = "returned"
    /\ call' = c
    /\ result' = Outcome(c)
    /\ band_rows' = rows
    /\ UNCHANGED <<psd, PSD_splitting, moments, nu, m_p, alpha1, alpha2>>

call_get_band_stop_frequency ==
    /\ pc = "idle"
    /\ \E s \in Splittings :
           Query([op |-> "_get_band_stop_frequency", splitting |-> s], <<>>)

call_get_spectral_moments ==
    /\ pc = "idle"
    /\ \E s \in Splittings, o \in OrderLists :
           Query([op |-> "get_spectral_moments", splitting |-> s, arg |-> o],
                 SlicedRows(s, o))

call_get_bandwidth_estimator ==
    /\ pc = "idle"
    /\ \E s \in Splittings, i \in OrderValues :
           Query([op |-> "get_bandwidth_estimator", splitting |-> s, arg |-> i], <<>>)

call_get_vanmarcke_parameter ==
    /\ pc = "idle"
    /\ \E s \in Splittings :
           Query([op |-> "get_vanmarcke_parameter", splitting |-> s], <<>>)

call_get_nup ==
    /\ pc = "idle"
    /\ \E s \in Splittings :
           Query([op |-> "get_nup", splitting |-> s], <<>>)

call_get_mp ==
    /\ pc = "idle"
    /\ \E s \in Splittings :
           Query([op |-> "get_mp", splitting |-> s], <<>>)

\* the caller drops the outcome and is ready for its next query
Done ==
    /\ pc = "returned"
    /\ pc' = "idle"
    /\ call' = NoCall
    /\ result' = Return(<<>>)
    /\ band_rows' = <<>>
    /\ UNCHANGED <<psd, PSD_splitting, moments, nu, m_p, alpha1, alpha2>>

Next ==
    \/ call_get_band_stop_frequency
    \/ call_get_spectral_moments
    \/ call_get_bandwidth_estimator
    \/ call_get_vanmarcke_parameter
    \/ call_get_nup
    \/ call_get_mp
    \/ Done

Spec == Init /\ [][Next]_vars

(* ------------------------------ properties ----------------------------- *)
Returned(op) == pc = "returned" /\ call.op = op

HasMethod(splitting, name) ==
    /\ splitting.kind = "tuple"
    /\ splitting.items[1].kind = "str"
    /\ splitting.items[1].str = name

KnownMethod(splitting) ==
    HasMethod(splitting, "equalAreaBands") \/ HasMethod(splitting, "userDefinedBands")

\* the error kinds of the specification, as the code raises them
InvalidSplittingMethod == Raise("ValueError", "Unknown splitting method")
InvalidMomentOrder == Raise("TypeError", "Parameter i must be of type int or float")

LastRow == Len(psd) - 1
Magnitude(j) == psd[j + 1].p
Frequency(j) == psd[j + 1].f
Total == np_sum[[j \in 1..Len(psd) |-> psd[j].p]]
Cumulative(j) == np_sum[[k \in 1..(j + 1) |-> psd[k].p]]

StrictlyIncreasing(b) == \A k \in 1..(Len(b) - 1) : b[k] < b[k + 1]
NonDecreasing(b) == \A k \in 1..(Len(b) - 1) : b[k] <= b[k + 1]

\* a call of the splitter with ('equalAreaBands', N), N an int >= 1
EqualAreaCall ==
    /\ Returned("_get_band_stop_frequency")
    /\ HasMethod(call.splitting, "equalAreaBands")
    /\ call.splitting.items[2].kind = "int"
    /\ call.splitting.items[2].val >= 1

BandCount == call.splitting.items[2].val

\* C1: for a PSD of at least N rows, equalAreaBands(N) returns exactly N
\* boundaries, strictly increasing, the last one the last PSD row (zero
\* magnitudes included)
C1_StrictlyIncreasingToLastRow ==
    (EqualAreaCall /\ Len(psd) >= BandCount) =>
        /\ result.ok
        /\ Len(result.val) = BandCount
        /\ StrictlyIncreasing(result.val)
        /\ result.val[BandCount] = LastRow

\* |cumsum[j] - n*total/N|, times N
AreaGap(j, n) == Abs(BandCount * Cumulative(j) - n * Total)

\* C2: the n-th boundary of equalAreaBands(N) is the smallest row index whose
\* cumulative magnitude sum is closest to n*total/N, and the N boundaries are
\* non-decreasing
C2_FirstClosestCumulativeSum ==
    EqualAreaCall =>
        /\ result.ok
        /\ Len(result.val) = BandCount
        /\ \A n \in 1..BandCount :
               /\ result.val[n] \in 0..LastRow
               /\ \A k \in 0..LastRow : AreaGap(result.val[n], n) <= AreaGap(k, n)
               /\ \A k \in 0..(result.val[n] - 1) :
                      AreaGap(k, n) > AreaGap(result.val[n], n)
        /\ NonDecreasing(result.val)

\* several bands, and a later row with another cumulative sum is as close to
\* a target as the boundary chosen for it
C2_Witness ==
    /\ EqualAreaCall
    /\ BandCount >= 2
    /\ \E n \in 1..BandCount : \E k \in 0..LastRow :
           /\ k > result.val[n]
           /\ Cumulative(k) # Cumulative(result.val[n])
           /\ AreaGap(k, n) = AreaGap(result.val[n], n)

\* a get_spectral_moments call that returned its matrix, and its boundaries
MomentsReturned == Returned("get_spectral_moments") /\ result.ok
Boundaries == _get_band_stop_frequency(call.splitting).val
RowSet(rows) == {rows[j] : j \in 1..Len(rows)}

\* C3 as stated: band 0 is integrated over rows 0..boundary[0] and band k > 0
\* over the rows after boundary[k-1] up to boundary[k], boundary[k-1] excluded
C3_HalfOpenBands ==
    MomentsReturned =>
        /\ Len(band_rows) = Len(Boundaries)
        /\ \A k \in 1..Len(Boundaries) :
               RowSet(band_rows[k]) =
                   IF k = 1 THEN 0..Boundaries[1]
                   ELSE (Boundaries[k - 1] + 1)..Boundaries[k]

\* C3 amended: band k > 0 is integrated over rows boundary[k-1]..boundary[k],
\* both ends included (no row when boundary[k-1] > boundary[k])
C3_ClosedBands ==
    MomentsReturned =>
        /\ Len(band_rows) = Len(Boundaries)
        /\ \A k \in 1..Len(Boundaries) :
               /\ RowSet(band_rows[k]) =
                      IF k = 1 THEN 0..Boundaries[1]
                      ELSE Boundaries[k - 1]..Boundaries[k]
               /\ Len(band_rows[k]) = Cardinality(RowSet(band_rows[k]))

\* two bands, the second of several rows starting at the first one's boundary
C3_Witness ==
    /\ MomentsReturned
    /\ Len(Boundaries) = 2
    /\ Boundaries[1] < Boundaries[2]
    /\ band_rows[2][1] = Boundaries[1]
    /\ Len(band_rows[2]) >= 2

\* the doubled trapezoidal moment of order i over every row of the PSD
WholeMoment(i) ==
    np_trapz2([j \in 1..Len(psd) |-> Pow[psd[j].f, i] * psd[j].p],
              [j \in 1..Len(psd) |-> psd[j].f])

\* C4: the cached moments m0..m4 are the trapezoidal moments over all PSD rows
\* 0..len(psd)-1, for every PSD with non-negative magnitudes
C4_CachedMomentsCoverWholePSD ==
    \A i \in 0..4 : moments[i + 1] = WholeMoment(i)

\* a recognised method with a malformed argument
MalformedArgument(splitting) ==
    \/ /\ HasMethod(splitting, "equalAreaBands")
       /\ ~(splitting.items[2].kind = "int" /\ splitting.items[2].val >= 1)
    \/ /\ HasMethod(splitting, "userDefinedBands")
       /\ splitting.items[2].kind = "list"
       /\ \E k \in 1..Len(splitting.items[2].items) :
              ~IsNumber(splitting.items[2].items[k])

\* C5: a recognised method with a malformed argument fails, with an error that
\* is not the unknown-method error, and returns no boundary tuple
C5_MalformedArgumentHasOwnError ==
    (Returned("_get_band_stop_frequency") /\ MalformedArgument(call.splitting)) =>
        (~result.ok /\ result # InvalidSplittingMethod)

\* a numeric estimator index, where the query takes one
OtherArgumentsValid ==
    call.op = "get_bandwidth_estimator" => IsNumber(call.arg)

\* C6: a policy tuple whose method is neither equalAreaBands nor
\* userDefinedBands (a string or not) makes the splitter and every query
\* raise the unknown-method ValueError
C6_UnknownMethodRaisesValueError ==
    (/\ pc = "returned"
     /\ call.splitting.kind = "tuple"
     /\ ~KnownMethod(call.splitting)
     /\ OtherArgumentsValid) => result = InvalidSplittingMethod

\* C7: get_spectral_moments raises the order error whenever some order is not
\* numeric, for every policy the splitter accepts (zero bands included)
C7_NonNumericOrderAlwaysRaises ==
    (/\ Returned("get_spectral_moments")
     /\ _get_band_stop_frequency(call.splitting).ok
     /\ \E k \in 1..Len(call.arg) : ~IsNumber(call.arg[k])) =>
        result = InvalidMomentOrder

UserDefinedCall ==
    /\ Returned("_get_band_stop_frequency")
    /\ HasMethod(call.splitting, "userDefinedBands")
    /\ call.splitting.items[2].kind = "list"
    /\ \A k \in 1..Len(call.splitting.items[2].items) :
           IsNumber(call.splitting.items[2].items[k])

Targets == [k \in 1..Len(call.splitting.items[2].items) |->
               call.splitting.items[2].items[k].val]

FrequencyGap(j, k) == Abs(Frequency(j) - Targets[k])

\* C9: userDefinedBands(freqs) returns one index per target, in the order
\* given, each the first row closest in frequency to its target, and the row
\* of the target itself when the target is a sample frequency
C9_FirstClosestFrequency ==
    UserDefinedCall =>
        /\ result.ok
        /\ Len(result.val) = Len(Targets)
        /\ \A k \in 1..Len(Targets) :
               /\ result.val[k] \in 0..LastRow
               /\ \A j \in 0..LastRow :
                      FrequencyGap(result.val[k], k) <= FrequencyGap(j, k)
               /\ \A j \in 0..(result.val[k] - 1) :
                      FrequencyGap(j, k) > FrequencyGap(result.val[k], k)
               /\ \A j \in 0..LastRow :
                      Frequency(j) = Targets[k] => result.val[k] = j

\* two targets in descending order, the first a sample frequency, the second
\* midway between two samples
C9_Witness ==
    /\ UserDefinedCall
    /\ Len(Targets) = 2
    /\ Targets[1] > Targets[2]
    /\ result.val[1] > result.val[2]
    /\ Frequency(result.val[1]) = Targets[1]
    /\ \E j \in 0..LastRow :
           j > result.val[2] /\ FrequencyGap(j, 2) = FrequencyGap(result.val[2], 2)

\* every order of the call is an int or a float
NumericOrders == \A k \in 1..Len(call.arg) : IsNumber(call.arg[k])

\* (2*pi*f)^i * S(f) is zero at every sample of band b, for the k-th order
IntegrandVanishes(b, k) ==
    \A j \in 1..Len(band_rows[b]) :
        Pow[Frequency(band_rows[b][j]), call.arg[k].val] * Magnitude(band_rows[b][j]) = 0

\* C10 as stated: every entry is >= 0, and an entry is zero only when its band
\* slice is a single sample
C10_ZeroOnlyForSingleSample ==
    (MomentsReturned /\ NumericOrders) =>
        \A b \in 1..Len(result.val) : \A k \in 1..Len(call.arg) :
            /\ result.val[b][k] >= 0
            /\ result.val[b][k] = 0 => Len(band_rows[b]) = 1

\* C10 amended: every entry is >= 0, and an entry is zero exactly when its
\* slice has fewer than two samples or the integrand is zero at every sample
C10_ZeroIffNothingToIntegrate ==
    (MomentsReturned /\ NumericOrders) =>
        \A b \in 1..Len(result.val) : \A k \in 1..Len(call.arg) :
            /\ result.val[b][k] >= 0
            /\ result.val[b][k] = 0 <=>
                   (Len(band_rows[b]) < 2 \/ IntegrandVanishes(b, k))

\* one matrix with a positive entry, a zero entry of a single-sample band and
\* a zero entry of a band of several samples
C10_Witness ==
    /\ MomentsReturned
    /\ NumericOrders
    /\ \E b \in 1..Len(result.val) : \E k \in 1..Len(call.arg) :
           result.val[b][k] > 0
    /\ \E b \in 1..Len(result.val) : \E k \in 1..Len(call.arg) :
           result.val[b][k] = 0 /\ Len(band_rows[b]) = 1
    /\ \E b \in 1..Len(result.val) : \E k \in 1..Len(call.arg) :
           result.val[b][k] = 0 /\ Len(band_rows[b]) >= 2

(* ------------------------ bandwidth estimator range -------------------- *)
BandwidthReturned == Returned("get_bandwidth_estimator") /\ result.ok

\* C11: on a PSD with non-negative, strictly increasing frequencies and
\* non-negative magnitudes, every band of get_bandwidth_estimator(policy, i)
\* whose m0 and m_2i are both positive (m0 * m_2i > 0) has
\* 0 <= alpha_i <= 1, that is m_i >= 0 and m_i^2 <= m0 * m_2i.
C11_AlphaBetweenZeroAndOne ==
    BandwidthReturned =>
        \A b \in 1..Len(result.val) :
            result.val[b].rad > 0 =>
                /\ result.val[b].num >= 0
                /\ result.val[b].num * result.val[b].num <= result.val[b].rad

\* an index i >= 1 and two bands: one with 0 < alpha_i < 1, one with alpha_i = 1
C11_Witness ==
    /\ BandwidthReturned
    /\ call.arg.val >= 1
    /\ \E b \in 1..Len(result.val) :
           /\ result.val[b].num > 0
           /\ result.val[b].num * result.val[b].num < result.val[b].rad
    /\ \E b \in 1..Len(result.val) :
           /\ result.val[b].rad > 0
           /\ result.val[b].num * result.val[b].num = result.val[b].rad

(* ------------------------- additivity over bands ----------------------- *)
\* the sum over the bands of the returned moment of the k-th requested order
BandSum(k) == np_sum[[b \in 1..Len(result.val) |-> result.val[b][k]]]

\* the moment of order i over rows 0..last taken as one band
PrefixMoment(i, last) ==
    _get_spectral_moment(Rows(psd, PySlice(psd, 0, last + 1)), i).val

\* C12: when the boundary tuple is non-decreasing, the per-band moments that
\* get_spectral_moments returns sum, order by order, to the trapezoidal
\* moment of rows 0..boundary[last], and a band whose boundary equals the
\* previous one contributes 0.
C12_BandMomentsSumToPrefix ==
    (MomentsReturned /\ NumericOrders /\ Boundaries # <<>>
        /\ NonDecreasing(Boundaries)) =>
        \A k \in 1..Len(call.arg) :
            /\ BandSum(k) = PrefixMoment(call.arg[k], Boundaries[Len(Boundaries)])
            /\ \A b \in 2..Len(Boundaries) :
                   Boundaries[b] = Boundaries[b - 1] => result.val[b][k] = 0

\* two bands with different boundaries, both with a positive moment
C12_Witness ==
    /\ MomentsReturned /\ NumericOrders
    /\ Len(Boundaries) = 2 /\ Boundaries[1] < Boundaries[2]
    /\ \E k \in 1..Len(call.arg) :
           result.val[1][k] > 0 /\ result.val[2][k] > 0

====
